---- MODULE Spec2Model ----
(***************************************************************************)
(* Model of the YC founders scraper (src/src/yc_founders_scraper.py and   *)
(* src/run_yc_scraper.py).                                                 *)
(*                                                                         *)
(* Python strings are modelled as sequences of one-character strings, so   *)
(* that splitting, stripping, substring tests, the batch regular           *)
(* expression and lower-casing are computed character by character, as    *)
(* the interpreter computes them.  The empty string '' is <<>>.  Python's *)
(* None is the one-element sequence None below, which is no string.       *)
(***************************************************************************)
EXTENDS Integers, Sequences, FiniteSets, TLC

VARIABLES
    \* parse_founder_text, called on one raw text block
    pText, pRec, pPc,
    \* extract_linkedin_url, called on one profile URL and the page behind it
    lProfile, lPage, lResult, lPc,
    \* scroll_to_load_all_founders: the simulated page, the locals of the loop,
    \* and what the last iterations observed (countUp, stallRun)
    sPc, pageHeight, pageCount, growthLeft, last_height, new_height,
    founders_loaded, no_change_count, countUp, stallRun,
    \* scrape_founders: the page's entry elements, self.driver, the driver
    \* operations performed so far, the locals and the outcome
    scPc, scDriver, scOps, scFailed, scExit, scResult, scPrimary, scFallback,
    founders_elements, founders_data, scI,
    \* the calls of extract_linkedin_url made by the link loop so far: the
    \* profile URL passed and how the navigation ended
    scVisited,
    \* save_to_csv: the argument data, the content of the file named filename
    \* (None while no such file exists) and the position of the call
    csvData, csvFile, csvPc

parseVars == <<pText, pRec, pPc>>
linkVars == <<lProfile, lPage, lResult, lPc>>
scrollVars == <<sPc, pageHeight, pageCount, growthLeft, last_height, new_height,
                founders_loaded, no_change_count, countUp, stallRun>>
scrapeVars == <<scPc, scDriver, scOps, scFailed, scExit, scResult, scPrimary,
                scFallback, founders_elements, founders_data, scI, scVisited>>
saveVars == <<csvData, csvFile, csvPc>>
vars == <<parseVars, linkVars, scrollVars, scrapeVars, saveVars>>

None == <<"None">>

-----------------------------------------------------------------------------
(* Python str operations *)

\* str.isspace() of one character (the whitespace str.strip() and str.split() drop)
IsSpace(c) == c \in {" ", "\n", "\t", "\r"}

RECURSIVE LStrip(_)
LStrip(s) == IF s # <<>> /\ IsSpace(Head(s)) THEN LStrip(Tail(s)) ELSE s

RECURSIVE RStrip(_)
RStrip(s) ==
    IF s # <<>> /\ IsSpace(s[Len(s)]) THEN RStrip(SubSeq(s, 1, Len(s) - 1)) ELSE s

\* str.strip()
Strip(s) == RStrip(LStrip(s))

\* str.find(sub) + 1: the position of the leftmost occurrence of sub in s, 0 if none
Find(s, sub) ==
    LET hits == {i \in 1..(Len(s) - Len(sub) + 1) : SubSeq(s, i, i + Len(sub) - 1) = sub}
    IN  IF hits = {} THEN 0 ELSE CHOOSE i \in hits : \A j \in hits : i <= j

\* sub in s
Contains(s, sub) == Find(s, sub) # 0

\* str.split(sep): left to right, non-overlapping, empty pieces kept
RECURSIVE Split(_, _)
Split(s, sep) ==
    LET i == Find(s, sep)
    IN  IF i = 0 THEN <<s>>
        ELSE <<SubSeq(s, 1, i - 1)>> \o Split(SubSeq(s, i + Len(sep), Len(s)), sep)

\* str.split(sep, 1): split at the leftmost occurrence only
SplitOnce(s, sep) ==
    LET i == Find(s, sep)
    IN  IF i = 0 THEN <<s>>
        ELSE <<SubSeq(s, 1, i - 1), SubSeq(s, i + Len(sep), Len(s))>>

\* str.split(): split on runs of whitespace, no empty pieces
RECURSIVE SplitWs(_)
SplitWs(s) ==
    LET t == LStrip(s)
        RECURSIVE WordLen(_)
        WordLen(u) == IF u = <<>> \/ IsSpace(Head(u)) THEN 0 ELSE 1 + WordLen(Tail(u))
        n == WordLen(t)
    IN  IF t = <<>> THEN <<>>
        ELSE <<SubSeq(t, 1, n)>> \o SplitWs(SubSeq(t, n + 1, Len(t)))

\* sep.join(parts)
RECURSIVE Join(_, _)
Join(parts, sep) ==
    IF parts = <<>> THEN <<>>
    ELSE IF Len(parts) = 1 THEN parts[1]
    ELSE parts[1] \o sep \o Join(Tail(parts), sep)

\* str.replace(old, new)
Replace(s, old, new) == Join(Split(s, old), new)

\* str.lower() on the letters the model uses
LowerChar(c) ==
    CASE c = "A" -> "a" [] c = "B" -> "b" [] c = "C" -> "c" [] c = "D" -> "d"
      [] c = "E" -> "e" [] c = "F" -> "f" [] c = "L" -> "l" [] c = "O" -> "o"
      [] c = "P" -> "p" [] c = "S" -> "s" [] c = "T" -> "t" [] c = "V" -> "v"
      [] c = "W" -> "w" [] c = "X" -> "x" [] OTHER -> c

Lower(s) == [i \in 1..Len(s) |-> LowerChar(s[i])]

-----------------------------------------------------------------------------
(* parse_founder_text *)

sNewline == <<"\n">>
sSpace == <<" ">>
sAt == <<" ", "a", "t", " ">>
sStars == <<"*", "*">>

\* the title keywords of lines 196 and 210
role_indicators ==
    << <<"C", "E", "O">>,
       <<"C", "T", "O">>,
       <<"F", "o", "u", "n", "d", "e", "r">>,
       <<"C", "o", "-", "f", "o", "u", "n", "d", "e", "r">>,
       <<"P", "r", "e", "s", "i", "d", "e", "n", "t">>,
       <<"V", "P">>,
       <<"C", "h", "i", "e", "f">>,
       <<"D", "i", "r", "e", "c", "t", "o", "r">> >>

\* any(indicator in line for indicator in [...])
HasIndicator(line) == \E k \in DOMAIN role_indicators : Contains(line, role_indicators[k])

Digits == {"0", "1", "2", "3", "4", "5", "6", "7", "8", "9"}

\* re.search(r'[SWFX]\d{2}', line): the leftmost match, None if there is none
BatchSearch(line) ==
    LET hits == {i \in 1..(Len(line) - 2) :
                    /\ line[i] \in {"S", "W", "F", "X"}
                    /\ line[i + 1] \in Digits
                    /\ line[i + 2] \in Digits}
    IN  IF hits = {} THEN None
        ELSE LET i == CHOOSE i \in hits : \A j \in hits : i <= j
             IN  SubSeq(line, i, i + 2)

\* lines = [line.strip() for line in text.split('\n') if line.strip()]
TextLines(text) ==
    LET raw == Split(text, sNewline)
        kept == SelectSeq(raw, LAMBDA l : Strip(l) # <<>>)
    IN  [i \in 1..Len(kept) |-> Strip(kept[i])]

EmptyFounderInfo ==
    [first_name |-> <<>>, last_name |-> <<>>, current_role |-> <<>>,
     current_company |-> <<>>, batch |-> <<>>, linkedin_url |-> <<>>]

\* ParseName with lines[0] written for name_parts[0] in line 188
ParseNameWholeLine(info, line) ==
    LET name_parts == SplitWs(line)
    IN  IF Len(name_parts) >= 2
        THEN [info EXCEPT !.first_name = line,
                          !.last_name = Join(Tail(name_parts), sSpace)]
        ELSE IF Len(name_parts) = 1
        THEN [info EXCEPT !.first_name = name_parts[1]]
        ELSE info

\* the name rule applied to lines[0]
ParseName(info, line) ==
    LET name_parts == SplitWs(line)
    IN  IF Len(name_parts) >= 2
        THEN [info EXCEPT !.first_name = name_parts[1],
                          !.last_name = Join(Tail(name_parts), sSpace)]
        ELSE IF Len(name_parts) = 1
        THEN [info EXCEPT !.first_name = name_parts[1]]
        ELSE info

\* ParseLine without the "not founder_info['batch']" guard of line 205
ParseLineLastBatch(info, line) ==
    IF Contains(line, sAt) /\ HasIndicator(line)
    THEN LET parts == SplitOnce(line, sAt)
         IN  [info EXCEPT !.current_role = Strip(parts[1]),
                           !.current_company = Strip(parts[2])]
    ELSE IF BatchSearch(line) # None
    THEN [info EXCEPT !.batch = BatchSearch(line)]
    ELSE IF info.current_role = <<>> /\ HasIndicator(line)
    THEN [info EXCEPT !.current_role = line]
    ELSE info

\* one iteration of "for line in lines[1:]"
ParseLine(info, line) ==
    IF Contains(line, sAt) /\ HasIndicator(line)
    THEN LET parts == SplitOnce(line, sAt)
         IN  IF Len(parts) = 2
             THEN [info EXCEPT !.current_role = Strip(parts[1]),
                               !.current_company = Strip(parts[2])]
             ELSE info
    ELSE IF BatchSearch(line) # None /\ info.batch = <<>>
    THEN [info EXCEPT !.batch = BatchSearch(line)]
    ELSE IF info.current_role = <<>> /\ HasIndicator(line)
    THEN [info EXCEPT !.current_role = line]
    ELSE info

RECURSIVE ParseLines(_, _)
ParseLines(info, lines) ==
    IF lines = <<>> THEN info ELSE ParseLines(ParseLine(info, Head(lines)), Tail(lines))

\* CleanUp without the clean-up of the company (lines 220-221)
CleanUpRoleOnly(info) ==
    [info EXCEPT !.current_role =
        IF @ # <<>> THEN Strip(Replace(@, sStars, <<>>)) ELSE @]

\* the clean-up of lines 215-221
CleanUp(info) ==
    LET r == IF info.current_role # <<>>
             THEN Strip(Replace(info.current_role, sStars, <<>>))
             ELSE info.current_role
        c == IF info.current_company # <<>>
             THEN Strip(Replace(info.current_company, sStars, <<>>))
             ELSE info.current_company
    IN  [info EXCEPT !.current_role = r, !.current_company = c]

parse_founder_text(text) ==
    LET lines == TextLines(text)
    IN  IF lines = <<>> THEN EmptyFounderInfo
        ELSE CleanUp(ParseLines(ParseName(EmptyFounderInfo, lines[1]), Tail(lines)))

-----------------------------------------------------------------------------
(* Raw text blocks: an optional name line, then at most MaxPieces pieces *)

MaxPieces == 5

TextPieces ==
    { sNewline, sStars, sAt,
      <<"C", "E", "O">>, <<"S", "2", "1">>, <<"W", "2", "2">>, <<"A", "n", "n">> }

RECURSIVE Concat(_)
Concat(ps) == IF ps = <<>> THEN <<>> ELSE Head(ps) \o Concat(Tail(ps))

NameHeads == { <<>>, <<"A", "n", "n", "\n">> }

RawTexts ==
    { h \o Concat(ps) :
        h \in NameHeads, ps \in UNION { [1..n -> TextPieces] : n \in 0..MaxPieces } }

ParseInit ==
    /\ pText \in RawTexts
    /\ pRec = None
    /\ pPc = "call"

\* one call of parse_founder_text on the raw text block
ParseCall ==
    /\ UNCHANGED <<linkVars, scrollVars, scrapeVars, saveVars>>
    /\ pPc = "call"
    /\ pRec' = parse_founder_text(pText)
    /\ pPc' = "returned"
    /\ UNCHANGED pText

ParseNext == ParseCall

-----------------------------------------------------------------------------
(* extract_linkedin_url *)

\* an element whose get_attribute raises (line 265 catches it)
Stale == <<"Stale">>

sLinkedin == <<"l", "i", "n", "k", "e", "d", "i", "n", ".", "c", "o", "m">>
sIn == <<"/", "i", "n", "/">>
sCompany == <<"/", "c", "o", "m", "p", "a", "n", "y", "/">>
sPub == <<"/", "p", "u", "b", "/">>
sFounders == <<"/", "f", "o", "u", "n", "d", "e", "r", "s", "/">>
sHyphen == <<"-">>
sSlash == <<"/">>

\* the loop of lines 245-267 on one element
ClassifyLink(acc, e) ==
    IF e = Stale THEN acc
    ELSE IF e = None \/ e = <<>> \/ ~Contains(e, sLinkedin) THEN acc
    ELSE IF Contains(e, sIn) THEN [acc EXCEPT !.personal = Append(@, e)]
    ELSE IF Contains(e, sCompany) THEN [acc EXCEPT !.company = Append(@, e)]
    ELSE IF Contains(e, sPub) THEN [acc EXCEPT !.personal = Append(@, e)]
    ELSE acc

RECURSIVE ClassifyLinks(_, _)
ClassifyLinks(acc, elems) ==
    IF elems = <<>> THEN acc
    ELSE ClassifyLinks(ClassifyLink(acc, Head(elems)), Tail(elems))

Last(s) == s[Len(s)]

\* founder_name_from_url of lines 273-278
founder_name_from_url(profile_url) ==
    IF Contains(profile_url, sFounders)
    THEN LET url_parts == Split(Last(Split(profile_url, sFounders)), sHyphen)
         IN  IF Len(url_parts) > 1 THEN Lower(Join(Tail(url_parts), sHyphen)) ELSE <<>>
    ELSE <<>>

\* linkedin_username of line 283
linkedin_username(linkedin_url) ==
    Lower(Split(Last(Split(linkedin_url, sIn)), sSlash)[1])

\* NameMatches without the len(name_part) > 2 filter of line 286
NameMatchesAnyLength(founder_name, username) ==
    /\ founder_name # <<>>
    /\ \E k \in DOMAIN Split(founder_name, sHyphen) :
          Contains(username, Split(founder_name, sHyphen)[k])

\* the test of line 286
NameMatches(founder_name, username) ==
    /\ founder_name # <<>>
    /\ \E k \in DOMAIN Split(founder_name, sHyphen) :
          LET name_part == Split(founder_name, sHyphen)[k]
          IN  Len(name_part) > 2 /\ Contains(username, name_part)

\* the loop of lines 281-289: the first matching link, None when there is none
RECURSIVE BestMatch(_, _)
BestMatch(urls, founder_name) ==
    IF urls = <<>> THEN None
    ELSE IF NameMatches(founder_name, linkedin_username(Head(urls))) THEN Head(urls)
    ELSE BestMatch(Tail(urls), founder_name)

\* SelectLinkedin with the two branches of lines 270 and 295 in the other order
SelectLinkedinCompanyFirst(personal, company, profile_url) ==
    IF company # <<>> THEN company[1]
    ELSE IF personal # <<>>
    THEN LET best_match == BestMatch(personal, founder_name_from_url(profile_url))
         IN  IF best_match # None THEN best_match ELSE personal[1]
    ELSE None

\* lines 270-302
SelectLinkedin(personal, company, profile_url) ==
    IF personal # <<>>
    THEN LET best_match == BestMatch(personal, founder_name_from_url(profile_url))
         IN  IF best_match # None THEN best_match ELSE personal[1]
    ELSE IF company # <<>> THEN company[1]
    ELSE None

\* page: what the driver answers for the profile page: nav is how driver.get and
\* the wait for the body end, elems the href of each element the selector finds
extract_linkedin_url(profile_url, page) ==
    IF profile_url = None \/ profile_url = <<>> THEN None
    ELSE IF page.nav # "ok" THEN None
    ELSE LET found == ClassifyLinks([personal |-> <<>>, company |-> <<>>], page.elems)
         IN  SelectLinkedin(found.personal, found.company, profile_url)

-----------------------------------------------------------------------------
(* Profile pages: at most MaxLinks link elements *)

MaxLinks == 3

LinkInAndy == <<"h", "t", "t", "p", "s", ":", "/", "/", "l", "i", "n", "k", "e", "d", "i", "n", ".", "c", "o", "m", "/", "i", "n", "/", "A", "n", "d", "y", "-", "F", "a", "n", "g">>
LinkInBob == <<"h", "t", "t", "p", "s", ":", "/", "/", "l", "i", "n", "k", "e", "d", "i", "n", ".", "c", "o", "m", "/", "i", "n", "/", "b", "o", "b", "/">>
LinkCompanyAcme == <<"h", "t", "t", "p", "s", ":", "/", "/", "l", "i", "n", "k", "e", "d", "i", "n", ".", "c", "o", "m", "/", "c", "o", "m", "p", "a", "n", "y", "/", "a", "c", "m", "e">>
LinkCompanyFang == <<"h", "t", "t", "p", "s", ":", "/", "/", "l", "i", "n", "k", "e", "d", "i", "n", ".", "c", "o", "m", "/", "c", "o", "m", "p", "a", "n", "y", "/", "f", "a", "n", "g">>
LinkPubAndy == <<"h", "t", "t", "p", "s", ":", "/", "/", "l", "i", "n", "k", "e", "d", "i", "n", ".", "c", "o", "m", "/", "p", "u", "b", "/", "a", "n", "d", "y", "-", "f", "a", "n", "g", "/", "1">>
LinkCompanyPub == <<"h", "t", "t", "p", "s", ":", "/", "/", "l", "i", "n", "k", "e", "d", "i", "n", ".", "c", "o", "m", "/", "c", "o", "m", "p", "a", "n", "y", "/", "p", "u", "b", "/">>
LinkFeed == <<"h", "t", "t", "p", "s", ":", "/", "/", "l", "i", "n", "k", "e", "d", "i", "n", ".", "c", "o", "m", "/", "f", "e", "e", "d">>

LinkElements ==
    { LinkInAndy, LinkInBob, LinkCompanyAcme, LinkCompanyFang, LinkPubAndy,
      LinkCompanyPub, LinkFeed, None, Stale }

ProfileAndyFang == <<"h", "t", "t", "p", "s", ":", "/", "/", "y", "c", ".", "c", "o", "m", "/", "f", "o", "u", "n", "d", "e", "r", "s", "/", "1", "-", "A", "n", "d", "y", "-", "F", "a", "n", "g">>
ProfileBoLi == <<"h", "t", "t", "p", "s", ":", "/", "/", "y", "c", ".", "c", "o", "m", "/", "f", "o", "u", "n", "d", "e", "r", "s", "/", "2", "-", "b", "o", "-", "l", "i">>
ProfileNoHyphen == <<"h", "t", "t", "p", "s", ":", "/", "/", "y", "c", ".", "c", "o", "m", "/", "f", "o", "u", "n", "d", "e", "r", "s", "/", "a", "n", "d", "y">>
ProfileNoFounders == <<"h", "t", "t", "p", "s", ":", "/", "/", "y", "c", ".", "c", "o", "m", "/", "p", "e", "o", "p", "l", "e", "/", "3", "-", "a", "n", "d", "y", "-", "f", "a", "n", "g">>

ProfileUrls == { <<>>, ProfileAndyFang, ProfileBoLi, ProfileNoHyphen, ProfileNoFounders }

ProfilePages ==
    { [nav |-> n, elems |-> es] :
        n \in {"ok"}, es \in UNION { [1..k -> LinkElements] : k \in 0..MaxLinks } }
    \cup { [nav |-> n, elems |-> <<>>] : n \in {"timeout", "error"} }

LinkInit ==
    /\ lProfile \in ProfileUrls
    /\ lPage \in ProfilePages
    /\ lResult = None
    /\ lPc = "call"

\* one call of extract_linkedin_url
LinkCall ==
    /\ UNCHANGED <<parseVars, scrollVars, scrapeVars, saveVars>>
    /\ lPc = "call"
    /\ lResult' = extract_linkedin_url(lProfile, lPage)
    /\ lPc' = "returned"
    /\ UNCHANGED <<lProfile, lPage>>

LinkNext == LinkCall

-----------------------------------------------------------------------------
(* scroll_to_load_all_founders: lines 91-126 *)

\* the threshold of line 116
StallThreshold == 3

\* CountCheck with >= written for > in line 107
CountCheckGe(ncc, current, loaded) == IF current >= loaded THEN 0 ELSE ncc + 1

\* lines 107-112: the stall counter after the entry count was compared
CountCheck(ncc, current, loaded) == IF current > loaded THEN 0 ELSE ncc + 1

\* lines 114-122: the stall counter after the page height was compared
HeightCheck(ncc, new_h, last_h) == IF new_h = last_h THEN ncc + 1 ELSE 0

\* line 116
ShouldBreak(ncc) == ncc >= StallThreshold

(* The simulated page: every scroll event may add height and entries while  *)
(* growthLeft scroll events remain; afterwards the page no longer changes.   *)
MaxGrowth == 3
MaxInitialEntries == 1

\* a scroll event seen by the page: h, c, g are the height, entry count and
\* remaining growth before, the result is one possible triple after
PageAfterScroll(h, c, g) ==
    IF g = 0 THEN {<<h, c, g>>}
    ELSE {<<h + dh, c + dc, g - 1>> : dh \in 0..1, dc \in 0..1}

ScrollInit ==
    /\ sPc = "start"
    /\ pageHeight = 1
    /\ pageCount \in 0..MaxInitialEntries
    /\ growthLeft \in 0..MaxGrowth
    /\ last_height = 0
    /\ new_height = 0
    /\ founders_loaded = 0
    /\ no_change_count = 0
    /\ countUp = FALSE
    /\ stallRun = 0

ScrollFrame == UNCHANGED <<parseVars, linkVars, scrapeVars, saveVars>>

\* lines 91-93
ScrollStart ==
    /\ ScrollFrame
    /\ sPc = "start"
    /\ last_height' = pageHeight
    /\ founders_loaded' = 0
    /\ no_change_count' = 0
    /\ sPc' = "scroll"
    /\ UNCHANGED <<pageHeight, pageCount, growthLeft, new_height, countUp, stallRun>>

\* lines 97-112: scroll to the bottom, wait, read the height and count the entries
ScrollMeasure ==
    /\ ScrollFrame
    /\ sPc = "scroll"
    /\ \E p \in PageAfterScroll(pageHeight, pageCount, growthLeft) :
          /\ pageHeight' = p[1]
          /\ pageCount' = p[2]
          /\ growthLeft' = p[3]
          /\ new_height' = p[1]
          /\ countUp' = (p[2] > founders_loaded)
          /\ founders_loaded' = IF p[2] > founders_loaded THEN p[2] ELSE founders_loaded
          /\ no_change_count' = CountCheck(no_change_count, p[2], founders_loaded)
    /\ sPc' = "compare"
    /\ UNCHANGED <<last_height, stallRun>>

\* lines 114-124: compare the height, break or scroll a bit more, remember the height
ScrollCompare ==
    /\ ScrollFrame
    /\ sPc = "compare"
    /\ no_change_count' = HeightCheck(no_change_count, new_height, last_height)
    /\ stallRun' = IF new_height = last_height /\ ~countUp
                   THEN (IF stallRun < StallThreshold THEN stallRun + 1 ELSE stallRun)
                   ELSE 0
    /\ IF new_height = last_height /\ ShouldBreak(no_change_count')
       THEN /\ sPc' = "done"
            /\ UNCHANGED <<pageHeight, pageCount, growthLeft, last_height>>
       ELSE /\ sPc' = "scroll"
            /\ last_height' = new_height
            /\ IF new_height = last_height
               THEN \E p \in PageAfterScroll(pageHeight, pageCount, growthLeft) :
                        /\ pageHeight' = p[1]
                        /\ pageCount' = p[2]
                        /\ growthLeft' = p[3]
               ELSE UNCHANGED <<pageHeight, pageCount, growthLeft>>
    /\ UNCHANGED <<new_height, founders_loaded, countUp>>

-----------------------------------------------------------------------------
(* extract_founder_overview_data and scrape_founders *)

ElemTextName == <<"A", "n", "n">>
ElemTextFull == <<"A", "n", "n", " ", "L", "e", "e", "\n", "*", "*", "C", "E", "O", "*", "*", " ", "a", "t", " ", "A", "c", "m", "e", "\n", "S", "2", "1", " ">>

\* what one entry element answers: stale = its reads raise, href = get_attribute('href')
\* (None when the anchor has no link target), text = element.text
PrimaryElements ==
    { [stale |-> FALSE, href |-> h, text |-> t] :
        h \in {None, ProfileAndyFang, ProfileBoLi}, t \in {<<>>, ElemTextName, ElemTextFull} }
    \cup { [stale |-> TRUE, href |-> None, text |-> <<>>] }

\* the fallback selector a[href*='/founders/'] only finds anchors with a link target
FallbackElements == { e \in PrimaryElements : e.stale \/ e.href # None }

MaxElems == 2

ElementLists(S) == UNION { [1..n -> S] : n \in 0..MaxElems }

\* lines 149-158 for one element whose reads succeed: the record appended
ElementRecord(e) ==
    [profile_url |-> e.href] @@ parse_founder_text(Strip(e.text))

\* OverviewRecords with break written for continue in line 164
RECURSIVE OverviewRecordsAbort(_)
OverviewRecordsAbort(elems) ==
    IF elems = <<>> THEN <<>>
    ELSE IF Head(elems).stale THEN <<>>
    ELSE <<[profile_url |-> Head(elems).href] @@ parse_founder_text(Strip(Head(elems).text))>>
         \o OverviewRecordsAbort(Tail(elems))

\* the loop of lines 146-164: an element whose read raises is skipped
RECURSIVE OverviewRecords(_)
OverviewRecords(elems) ==
    IF elems = <<>> THEN <<>>
    ELSE IF Head(elems).stale THEN OverviewRecords(Tail(elems))
    ELSE <<ElementRecord(Head(elems))>> \o OverviewRecords(Tail(elems))

\* lines 134-141: the elements of the primary selector, of the fallback one if none
FoundersElements(primary, fallback) == IF primary = <<>> THEN fallback ELSE primary

\* the profile pages the link loop may meet
ScrapePages ==
    { [nav |-> "timeout", elems |-> <<>>],
      [nav |-> "error", elems |-> <<>>],
      [nav |-> "ok", elems |-> <<>>],
      [nav |-> "ok", elems |-> <<LinkCompanyAcme, LinkInAndy>>] }

\* the browser session webdriver.Chrome returns (lines 60 and 69)
Session == <<"WebDriver">>

\* ShouldQuit with driver.quit() moved from the finally block to the end of the try block
ShouldQuitOnSuccess == scDriver # None /\ scFailed = "none"

\* line 417
ShouldQuit == scDriver # None

ScrapeFrame == UNCHANGED <<parseVars, linkVars, scrollVars, saveVars>>

ScrapeInit ==
    /\ scPc = "setup"
    /\ scDriver = None
    /\ scOps = <<>>
    /\ scFailed = "none"
    /\ scExit = "running"
    /\ scResult = None
    /\ scPrimary \in ElementLists(PrimaryElements)
    /\ scFallback \in IF scPrimary = <<>> THEN ElementLists(FallbackElements) ELSE {<<>>}
    /\ founders_elements = <<>>
    /\ founders_data = <<>>
    /\ scI = 0
    /\ scVisited = <<>>

\* an exception raised inside the try block of scrape_founders
Raise(stage) ==
    /\ scFailed' = stage
    /\ scPc' = "except"

\* line 382, setup_driver (lines 35-74): how = which constructor gave a session
SetupDriver ==
    /\ ScrapeFrame
    /\ scPc = "setup"
    /\ \E how \in {"manager", "system", "none"}, scriptOk \in BOOLEAN :
          IF how = "none"
          THEN /\ Raise("setup")
               /\ UNCHANGED <<scDriver, scOps>>
          ELSE /\ scDriver' = Session
               /\ scOps' = scOps \o <<"create", "execute_script">>
               /\ IF scriptOk
                  THEN scPc' = "navigate" /\ UNCHANGED scFailed
                  ELSE Raise("setup")
    /\ UNCHANGED <<scExit, scResult, scPrimary, scFallback, founders_elements,
                   founders_data, scI, scVisited>>

\* line 386
Navigate ==
    /\ ScrapeFrame
    /\ scPc = "navigate"
    /\ scOps' = Append(scOps, "get")
    /\ \/ scPc' = "wait" /\ UNCHANGED scFailed
       \/ Raise("navigation")
    /\ UNCHANGED <<scDriver, scExit, scResult, scPrimary, scFallback,
                   founders_elements, founders_data, scI, scVisited>>

\* lines 389-391
WaitBody ==
    /\ ScrapeFrame
    /\ scPc = "wait"
    /\ scOps' = Append(scOps, "wait")
    /\ \/ scPc' = "load" /\ UNCHANGED scFailed
       \/ Raise("navigation")
    /\ UNCHANGED <<scDriver, scExit, scResult, scPrimary, scFallback,
                   founders_elements, founders_data, scI, scVisited>>

\* line 394: scroll_to_load_all_founders returns, or one of its driver calls raises
LoadAll ==
    /\ ScrapeFrame
    /\ scPc = "load"
    /\ scOps' = Append(scOps, "scroll")
    /\ \/ scPc' = "extract" /\ UNCHANGED scFailed
       \/ Raise("loading")
    /\ UNCHANGED <<scDriver, scExit, scResult, scPrimary, scFallback,
                   founders_elements, founders_data, scI, scVisited>>

\* line 397, extract_founder_overview_data (lines 128-166)
ExtractOverview ==
    /\ ScrapeFrame
    /\ scPc = "extract"
    /\ scOps' = Append(scOps, "find_elements")
    /\ \/ /\ founders_elements' = FoundersElements(scPrimary, scFallback)
          /\ founders_data' = OverviewRecords(founders_elements')
          /\ scI' = 1
          /\ UNCHANGED scVisited
          /\ scPc' = "links"
          /\ UNCHANGED scFailed
       \/ /\ Raise("extraction")
          /\ UNCHANGED <<founders_elements, founders_data, scI, scVisited>>
    /\ UNCHANGED <<scDriver, scExit, scResult, scPrimary, scFallback>>

\* LinkedinOrEmpty without the "or ''" of line 406
LinkedinAsReturned(linkedin_url) == linkedin_url

\* line 406: linkedin_url or ''
LinkedinOrEmpty(linkedin_url) ==
    IF linkedin_url = None \/ linkedin_url = <<>> THEN <<>> ELSE linkedin_url

\* one iteration of the loop of lines 401-409
ResolveLink ==
    /\ ScrapeFrame
    /\ scPc = "links"
    /\ scI <= Len(founders_data)
    /\ LET founder == founders_data[scI]
       IN  IF founder.profile_url # None /\ founder.profile_url # <<>>
           THEN \E page \in ScrapePages :
                   LET linkedin_url == extract_linkedin_url(founder.profile_url, page)
                   IN  /\ founders_data' =
                              [founders_data EXCEPT ![scI].linkedin_url =
                                  LinkedinOrEmpty(linkedin_url)]
                       /\ scOps' = Append(scOps, "get")
                       /\ scVisited' = Append(scVisited,
                                              [url |-> founder.profile_url, nav |-> page.nav])
           ELSE UNCHANGED <<founders_data, scOps, scVisited>>
    /\ scI' = scI + 1
    /\ UNCHANGED <<scPc, scDriver, scFailed, scExit, scResult, scPrimary, scFallback,
                   founders_elements>>

\* line 411
ReturnData ==
    /\ ScrapeFrame
    /\ scPc = "links"
    /\ scI > Len(founders_data)
    /\ scResult' = founders_data
    /\ scPc' = "finally"
    /\ UNCHANGED <<scDriver, scOps, scFailed, scExit, scPrimary, scFallback,
                   founders_elements, founders_data, scI, scVisited>>

\* lines 413-415
ExceptHandler ==
    /\ ScrapeFrame
    /\ scPc = "except"
    /\ scResult' = <<>>
    /\ scPc' = "finally"
    /\ UNCHANGED <<scDriver, scOps, scFailed, scExit, scPrimary, scFallback,
                   founders_elements, founders_data, scI, scVisited>>

\* lines 416-418, then the return to the caller
FinallyQuit ==
    /\ ScrapeFrame
    /\ scPc = "finally"
    /\ scOps' = IF ShouldQuit THEN Append(scOps, "quit") ELSE scOps
    /\ scExit' = "returned"
    /\ scPc' = "exit"
    /\ UNCHANGED <<scDriver, scFailed, scResult, scPrimary, scFallback,
                   founders_elements, founders_data, scI, scVisited>>

-----------------------------------------------------------------------------
(* save_to_csv, and the runner that calls it on the result of scrape_founders *)

\* line 427
columns ==
    <<"first_name", "last_name", "current_role", "current_company", "batch",
      "linkedin_url", "profile_url">>

\* the column names as text, as writeheader() writes them
ColumnText ==
    [first_name |-> <<"f", "i", "r", "s", "t", "_", "n", "a", "m", "e">>,
     last_name |-> <<"l", "a", "s", "t", "_", "n", "a", "m", "e">>,
     current_role |-> <<"c", "u", "r", "r", "e", "n", "t", "_", "r", "o", "l", "e">>,
     current_company |-> <<"c", "u", "r", "r", "e", "n", "t", "_", "c", "o", "m", "p", "a", "n", "y">>,
     batch |-> <<"b", "a", "t", "c", "h">>,
     linkedin_url |-> <<"l", "i", "n", "k", "e", "d", "i", "n", "_", "u", "r", "l">>,
     profile_url |-> <<"p", "r", "o", "f", "i", "l", "e", "_", "u", "r", "l">>]

sComma == <<",">>
sQuote == <<"\"">>
sCrLf == <<"\r", "\n">>

\* founder.get(col, '') of line 435
Get(founder, col) == IF col \in DOMAIN founder THEN founder[col] ELSE <<>>

\* the csv writer writes None as the empty string and a string as it is
CsvStr(v) == IF v = None THEN <<>> ELSE v

\* NeedsQuote without the characters of the line terminator
NeedsQuoteNoNewline(s) == \E i \in DOMAIN s : s[i] \in {",", "\""}

\* QUOTE_MINIMAL of the excel dialect: a field holding the delimiter, the quote
\* character or a character of the line terminator is quoted
NeedsQuote(s) == \E i \in DOMAIN s : s[i] \in {",", "\"", "\r", "\n"}

\* one field as written: quoted when needed, the quote character doubled
CsvField(v) ==
    LET s == CsvStr(v)
    IN  IF NeedsQuote(s) THEN sQuote \o Replace(s, sQuote, sQuote \o sQuote) \o sQuote
        ELSE s

\* writer.writerow on the values of one row: comma-joined, ended by \r\n
WriteRow(cells) == Join([i \in DOMAIN cells |-> CsvField(cells[i])], sComma) \o sCrLf

\* line 435: the row of one record, a value per column
FounderRow(founder) == [i \in DOMAIN columns |-> Get(founder, columns[i])]

\* line 431, writeheader()
WriteHeader == WriteRow([i \in DOMAIN columns |-> ColumnText[columns[i]]])

\* lines 433-436
RECURSIVE WriteRows(_)
WriteRows(data) ==
    IF data = <<>> THEN <<>>
    ELSE WriteRow(FounderRow(Head(data))) \o WriteRows(Tail(data))

\* lines 420-439: the content of the file after the call, file being its content
\* before (open(filename, 'w') truncates)
save_to_csv(data, file) ==
    IF data = <<>> THEN file ELSE WriteHeader \o WriteRows(data)

(* The records handed to save_to_csv: values with and without characters the  *)
(* writer must quote, None, and records lacking keys.                          *)
SaveValues == { <<>>, None, <<"A">>, <<"a", ",", "\"", "b">> }

SaveKeySets ==
    { {"first_name", "last_name", "current_role", "current_company", "batch",
       "linkedin_url", "profile_url"},
      {"first_name", "current_company", "batch"},
      {"first_name"} }

SaveRecords ==
    { [k \in K |-> IF k = "first_name" THEN v
                   ELSE IF k = "current_company" THEN w
                   ELSE <<>>] :
        K \in SaveKeySets, v \in SaveValues, w \in {<<>>, <<"x", "\r", "\n", "y">>} }

MaxRecords == 2

\* a file left by an earlier run
OldFile == <<"o", "l", "d", "\r", "\n">>

SaveInit ==
    /\ csvPc = "call"
    /\ csvData \in UNION { [1..n -> SaveRecords] : n \in 0..MaxRecords }
    /\ csvFile \in {None, OldFile}

\* lines 420-439
SaveCall ==
    /\ UNCHANGED <<parseVars, linkVars, scrollVars, scrapeVars>>
    /\ csvPc = "call"
    /\ csvFile' = save_to_csv(csvData, csvFile)
    /\ csvPc' = "returned"
    /\ UNCHANGED csvData

SaveNext == SaveCall

\* run_yc_scraper.py lines 16-17: the runner saves what scrape_founders returned
MainSave ==
    /\ UNCHANGED <<parseVars, linkVars, scrollVars, scrapeVars>>
    /\ scPc = "exit"
    /\ csvPc = "idle"
    /\ csvData' = scResult
    /\ csvFile' = save_to_csv(scResult, csvFile)
    /\ csvPc' = "returned"

-----------------------------------------------------------------------------
(* Specifications: one per routine, the other routines' variables at rest *)

ParseIdle == pText = <<>> /\ pRec = None /\ pPc = "idle"

LinkIdle == lProfile = <<>> /\ lPage = None /\ lResult = None /\ lPc = "idle"

ScrollIdle ==
    /\ sPc = "idle" /\ pageHeight = 0 /\ pageCount = 0 /\ growthLeft = 0
    /\ last_height = 0 /\ new_height = 0 /\ founders_loaded = 0
    /\ no_change_count = 0 /\ countUp = FALSE /\ stallRun = 0

ScrapeIdle ==
    /\ scPc = "idle" /\ scDriver = None /\ scOps = <<>> /\ scFailed = "none"
    /\ scExit = "running" /\ scResult = None /\ scPrimary = <<>> /\ scFallback = <<>>
    /\ founders_elements = <<>> /\ founders_data = <<>> /\ scI = 0
    /\ scVisited = <<>>

SaveIdle == csvData = <<>> /\ csvFile = None /\ csvPc = "idle"

\* one call of parse_founder_text, nothing else running
InitParse == ParseInit /\ LinkIdle /\ ScrollIdle /\ ScrapeIdle /\ SaveIdle

SpecParse == InitParse /\ [][ParseNext]_vars

\* one call of extract_linkedin_url, nothing else running
InitLink == LinkInit /\ ParseIdle /\ ScrollIdle /\ ScrapeIdle /\ SaveIdle

SpecLink == InitLink /\ [][LinkNext]_vars

\* one call of save_to_csv, nothing else running
InitSave == SaveInit /\ ParseIdle /\ LinkIdle /\ ScrollIdle /\ ScrapeIdle

SpecSave == InitSave /\ [][SaveNext]_vars

\* one call of scroll_to_load_all_founders, nothing else running
InitScroll == ScrollInit /\ ParseIdle /\ LinkIdle /\ ScrapeIdle /\ SaveIdle

ScrollNext == ScrollStart \/ ScrollMeasure \/ ScrollCompare

\* the loop runs on one thread that is never suspended for ever: a step that
\* can be taken is taken
SpecScroll ==
    /\ InitScroll
    /\ [][ScrollNext]_vars
    /\ WF_vars(ScrollNext)

\* the program: the runner's call of scrape_founders on a fresh YCFoundersScraper,
\* then of save_to_csv on its result
Init == ScrapeInit /\ ParseIdle /\ LinkIdle /\ ScrollIdle /\ SaveIdle

Next ==
    \/ SetupDriver \/ Navigate \/ WaitBody \/ LoadAll \/ ExtractOverview
    \/ ResolveLink \/ ReturnData \/ ExceptHandler \/ FinallyQuit \/ MainSave

Spec == Init /\ [][Next]_vars

-----
(* Claims about parse_founder_text *)

\* the stripped, non-empty lines after the name line that the role-at-company
\* rule takes: they contain ' at ' and a title keyword
IsRoleAtLine(line) == Contains(line, sAt) /\ HasIndicator(line)

RoleAtLines(text) ==
    {i \in 2..Len(TextLines(text)) : IsRoleAtLine(TextLines(text)[i])}

\* X or Y of the claim, stripped, with the ** markers removed
Cleaned(s) == Strip(Replace(Strip(s), sStars, <<>>))

MaxOf(S) == CHOOSE i \in S : \A j \in S : j <= i
MinOf(S) == CHOOSE i \in S : \A j \in S : i <= j

BatchHits(text) ==
    {i \in 1..(Len(text) - 2) :
        /\ text[i] \in {"S", "W", "F", "X"}
        /\ text[i + 1] \in Digits
        /\ text[i + 2] \in Digits}

\* the number of the raw line (split on newline) that position i lies on
LineOf(text, i) == 1 + Cardinality({j \in 1..(i - 1) : text[j] = "\n"})

\* C7 as stated: with exactly one match in the raw text, batch is that match,
\* on whichever line it occurs; with two matches on different lines, batch is
\* the one on the earlier line; batch is empty only if no line has a match.
C7_AsStated ==
    pPc = "returned" =>
        LET hits == BatchHits(pText)
        IN  /\ Cardinality(hits) = 1 =>
                   pRec.batch = SubSeq(pText, MinOf(hits), MinOf(hits) + 2)
            /\ (Cardinality(hits) = 2
                    /\ LineOf(pText, MinOf(hits)) # LineOf(pText, MaxOf(hits))) =>
                   pRec.batch = SubSeq(pText, MinOf(hits), MinOf(hits) + 2)
            /\ pRec.batch = <<>> => hits = {}

\* the lines the batch rule sees: after the first non-empty line, not taken by
\* the role-at-company rule, and holding a match
BatchLines(text) ==
    {i \in 2..Len(TextLines(text)) :
        /\ ~IsRoleAtLine(TextLines(text)[i])
        /\ BatchSearch(TextLines(text)[i]) # None}

\* C7 as amended: batch is the leftmost match on the earliest line that comes
\* after the first non-empty line, is no role-at-company line and holds a
\* match; batch is empty exactly when there is no such line.
C7_Batch ==
    pPc = "returned" =>
        IF BatchLines(pText) = {} THEN pRec.batch = <<>>
        ELSE pRec.batch = BatchSearch(TextLines(pText)[MinOf(BatchLines(pText))])

\* two lines with different batch codes were parsed, and the earlier one won
C7_Witness ==
    /\ pPc = "returned"
    /\ Cardinality(BatchLines(pText)) >= 2
    /\ BatchSearch(TextLines(pText)[MinOf(BatchLines(pText))])
          # BatchSearch(TextLines(pText)[MaxOf(BatchLines(pText))])
    /\ pRec.batch # <<>>

\* the text rebuilt from a record: the name line, the role line, the batch line
Rebuilt(r) ==
    LET nameLine == <<r.first_name \o sSpace \o r.last_name>>
        roleLine == IF r.current_role = <<>> THEN <<>>
                    ELSE IF r.current_company = <<>> THEN <<r.current_role>>
                    ELSE <<r.current_role \o sAt \o r.current_company>>
        batchLine == IF r.batch = <<>> THEN <<>> ELSE <<r.batch>>
    IN  Join(nameLine \o roleLine \o batchLine, sNewline)

TextFields == {"first_name", "last_name", "current_role", "current_company", "batch"}

SameFields(r, q) == \A f \in TextFields : r[f] = q[f]

\* C8 as stated: for every raw text block, parsing the text rebuilt from its
\* record gives the same five fields again.
C8_AsStated ==
    pPc = "returned" => SameFields(parse_founder_text(Rebuilt(pRec)), pRec)

\* the records whose rebuilt text is read back the way it was put together
Rebuildable(r) ==
    /\ r.current_role = <<>> => r.current_company = <<>>
    /\ (r.current_role # <<>> /\ r.current_company # <<>>) =>
           Find(r.current_role \o sAt \o r.current_company, sAt) = Len(r.current_role) + 1
    /\ (r.current_role # <<>> /\ r.current_company = <<>>) =>
           ~Contains(r.current_role, sAt) /\ BatchSearch(r.current_role) = None

\* C8 as amended: parsing the rebuilt text gives the same five fields again
\* for every record that (1) has a role whenever it has a company, (2) whose
\* line "role at company" has its leftmost ' at ' right after the role, and
\* (3) whose role, when the company is empty, holds neither ' at ' nor a batch
\* code.
C8_Idempotent ==
    (pPc = "returned" /\ Rebuildable(pRec)) =>
        SameFields(parse_founder_text(Rebuilt(pRec)), pRec)

\* a record with a name, a role, a company and a batch was rebuilt and re-parsed
C8_Witness ==
    /\ pPc = "returned"
    /\ Rebuildable(pRec)
    /\ pRec.first_name # <<>>
    /\ pRec.current_role # <<>>
    /\ pRec.current_company # <<>>
    /\ pRec.batch # <<>>


-----------------------------------------------------------------------------
(* Claims about scroll_to_load_all_founders *)

\* C1: on a simulated page that stops growing after finitely many scroll
\* events, and with no failing driver call, the scroll loop eventually reaches
\* its break and the function returns.
C1_Terminates == <>(sPc = "done")

\* the page grew while the loop ran, and the loop broke afterwards
C1_Witness ==
    /\ sPc = "done"
    /\ pageHeight > 1
    /\ founders_loaded > MaxInitialEntries

\* C2 as stated: the loop breaks only when the 3 most recent iterations all
\* showed an unchanged height and no increase of the entry count, and an
\* iteration in which the entry count increased ends with the stall counter at
\* zero.
C2_AsStated ==
    /\ sPc = "done" => stallRun >= StallThreshold
    /\ (sPc \in {"scroll", "done"} /\ countUp) => no_change_count = 0

-----------------------------------------------------------------------------
(* Claims about scrape_founders and extract_founder_overview_data *)

SessionCreated == \E i \in DOMAIN scOps : scOps[i] = "create"

\* C3: on every path out of scrape_founders on which a browser session was
\* created, driver.quit is called exactly once and is the last driver
\* operation; no exception of the stages reaches the caller, and when a stage
\* raised, the result is the empty list.  No driver operation ever follows
\* quit.
C3_SessionReleased ==
    /\ \A i \in DOMAIN scOps : scOps[i] = "quit" => i = Len(scOps)
    /\ (scPc = "exit" /\ SessionCreated) =>
          /\ Cardinality({i \in DOMAIN scOps : scOps[i] = "quit"}) = 1
          /\ scOps[Len(scOps)] = "quit"
          /\ scExit = "returned"
          /\ scFailed # "none" => scResult = <<>>

\* the extraction stage raised with a session open, and the routine was left
C3_Witness ==
    /\ scPc = "exit"
    /\ SessionCreated
    /\ scFailed = "extraction"

RecordFields ==
    {"first_name", "last_name", "current_role", "current_company", "batch",
     "linkedin_url", "profile_url"}

\* C9 as stated: every record of the pipeline has all seven fields, each
\* holding a string, never None.
C9_AsStated ==
    \A i \in DOMAIN founders_data :
        /\ DOMAIN founders_data[i] = RecordFields
        /\ \A f \in RecordFields : founders_data[i][f] # None

ExtractionDone ==
    \/ scPc = "links"
    \/ scPc \in {"finally", "exit"} /\ scFailed = "none"

\* C10: once extract_founder_overview_data has returned, founders_data holds
\* exactly one record per entry element whose reads did not raise, in document
\* order: the k-th record carries the link target and the parsed text of the
\* k-th such element.  The link loop never changes that.
C10_OneRecordPerElement ==
    ExtractionDone =>
        LET good == SelectSeq(founders_elements, LAMBDA e : ~e.stale)
        IN  /\ Len(founders_data) = Len(good)
            /\ \A k \in DOMAIN good :
                  /\ founders_data[k].profile_url = good[k].href
                  /\ SameFields(founders_data[k], parse_founder_text(Strip(good[k].text)))

\* an element whose read raised was followed by one that was extracted
C10_Witness ==
    /\ ExtractionDone
    /\ Len(founders_elements) = 2
    /\ founders_elements[1].stale
    /\ ~founders_elements[2].stale
    /\ Len(founders_data) = 1
    /\ founders_data[1].first_name # <<>>

\* the record has a profile URL the link loop resolves
HasProfileUrl(founder) == founder.profile_url # None /\ founder.profile_url # <<>>

\* the number of records the link loop has gone through
LoopDone == IF scPc = "links" THEN scI - 1 ELSE Len(founders_data)

\* the records gone through that have a profile URL, by position, in list order
ResolvedPositions ==
    SelectSeq([i \in 1..LoopDone |-> i], LAMBDA i : HasProfileUrl(founders_data[i]))

\* C12: in the link loop of scrape_founders the resolver is called exactly once
\* for every record with a non-empty profile_url, in list order; a call that
\* fails (timeout or navigation error) leaves that record's linkedin_url the
\* empty string; no failure stops the loop (nothing raises once the overview
\* extractor has returned, and the loop goes through every record); and the
\* list returned has the length and order of the overview extractor's list,
\* each record unchanged except for linkedin_url.
C12_LinkLoop ==
    /\ scFailed # "none" => (scI = 0 /\ scVisited = <<>>)
    /\ ExtractionDone =>
          LET overview == OverviewRecords(founders_elements)
          IN  /\ Len(scVisited) = Len(ResolvedPositions)
              /\ \A k \in DOMAIN ResolvedPositions :
                    /\ scVisited[k].url = founders_data[ResolvedPositions[k]].profile_url
                    /\ scVisited[k].nav # "ok" =>
                          founders_data[ResolvedPositions[k]].linkedin_url = <<>>
              /\ Len(founders_data) = Len(overview)
              /\ \A i \in DOMAIN founders_data :
                    /\ \A f \in RecordFields \ {"linkedin_url"} :
                          founders_data[i][f] = overview[i][f]
                    /\ founders_data[i].linkedin_url # None
                    /\ (i > LoopDone \/ ~HasProfileUrl(founders_data[i])) =>
                          founders_data[i].linkedin_url = <<>>
              /\ scPc \in {"finally", "exit"} =>
                    /\ LoopDone = Len(founders_data)
                    /\ scResult = founders_data

\* scrape_founders returned two records: the resolver timed out on the first
\* and found a link for the second
C12_Witness ==
    /\ scPc = "exit"
    /\ scFailed = "none"
    /\ Len(scResult) = 2
    /\ Len(scVisited) = 2
    /\ scVisited[1].nav = "timeout"
    /\ scVisited[2].nav = "ok"
    /\ scResult[1].linkedin_url = <<>>
    /\ scResult[2].linkedin_url # <<>>

-----------------------------------------------------------------------------
(* Claims about extract_linkedin_url *)

\* the profile page was visited
Visited == lPc = "returned" /\ lProfile # <<>> /\ lPage.nav = "ok"

\* the links discovered on the page, in discovery order
Discovered ==
    SelectSeq(lPage.elems,
              LAMBDA e : e # Stale /\ e # None /\ e # <<>> /\ Contains(e, sLinkedin))

\* C4 as stated: a personal link is one with /in/ or /pub/, a company link one
\* with /company/.  If a personal link was discovered the result is a personal
\* link; if none but a company link was, the result is the first company link;
\* if neither, the result is None.
C4_AsStated ==
    Visited =>
        LET personal == SelectSeq(Discovered, LAMBDA l : Contains(l, sIn) \/ Contains(l, sPub))
            company == SelectSeq(Discovered, LAMBDA l : Contains(l, sCompany))
        IN  /\ personal # <<>> => \E i \in DOMAIN personal : lResult = personal[i]
            /\ (personal = <<>> /\ company # <<>>) => lResult = company[1]
            /\ (personal = <<>> /\ company = <<>>) => lResult = None

\* the classes as the if/elif chain decides them: /in/ wins, then /company/, then /pub/
IsPersonal(l) == Contains(l, sIn) \/ (Contains(l, sPub) /\ ~Contains(l, sCompany))
IsCompany(l) == Contains(l, sCompany) /\ ~Contains(l, sIn)

PersonalLinks == SelectSeq(Discovered, IsPersonal)
CompanyLinks == SelectSeq(Discovered, IsCompany)

\* C4 as amended: with a link counted as personal when it holds /in/, or /pub/
\* and no /company/, and as a company link when it holds /company/ and no
\* /in/: if a personal link was discovered the result is a personal link,
\* whatever company links there are; if none but a company link was, the
\* result is the first company link discovered; if neither, the result is None.
C4_ClassPriority ==
    Visited =>
        /\ PersonalLinks # <<>> => \E i \in DOMAIN PersonalLinks : lResult = PersonalLinks[i]
        /\ (PersonalLinks = <<>> /\ CompanyLinks # <<>>) => lResult = CompanyLinks[1]
        /\ (PersonalLinks = <<>> /\ CompanyLinks = <<>>) => lResult = None

\* company links were discovered before the personal link that was returned
C4_Witness ==
    /\ Visited
    /\ Len(CompanyLinks) >= 2
    /\ PersonalLinks # <<>>
    /\ IsCompany(Discovered[1])
    /\ lResult = PersonalLinks[1]

\* the text of s after the last occurrence of sub
AfterLast(s, sub) ==
    LET hits == {i \in 1..(Len(s) - Len(sub) + 1) : SubSeq(s, i, i + Len(sub) - 1) = sub}
    IN  SubSeq(s, MaxOf(hits) + Len(sub), Len(s))

\* the name fragments of length > 2 of the profile URL: its slug after
\* /founders/, lowercased, split at hyphens, without the founder identifier
Fragments(profile_url) ==
    IF ~Contains(profile_url, sFounders) THEN {}
    ELSE LET parts == Split(Lower(AfterLast(profile_url, sFounders)), sHyphen)
         IN  {parts[k] : k \in {j \in 2..Len(parts) : Len(parts[j]) > 2}}

\* the token of a link with /in/: the path segment after /in/, lowercased
Token(l) ==
    LET rest == AfterLast(l, sIn)
        k == Find(rest, sSlash)
    IN  Lower(IF k = 0 THEN rest ELSE SubSeq(rest, 1, k - 1))

FragmentMatch(l) ==
    Contains(l, sIn) /\ \E f \in Fragments(lProfile) : Contains(Token(l), f)

-----------------------------------------------------------------------------
(* Claims about save_to_csv *)

(* A CSV reader of the excel dialect, reading the text t field by field.      *)

\* the position of the last character of the field that starts at position a:
\* a quoted field runs to its closing quote (a quote that is not the first of a
\* doubled quote), an unquoted one to the character before the next comma or
\* line end
FieldEnd(t, a) ==
    IF a <= Len(t) /\ t[a] = "\""
    THEN MinOf({ j \in (a + 1)..Len(t) :
                    /\ t[j] = "\""
                    /\ Cardinality({ k \in (a + 1)..j : t[k] = "\"" }) % 2 = 1
                    /\ (j = Len(t) \/ t[j + 1] # "\"") } \cup {Len(t) + 1})
    ELSE MinOf({ j \in a..Len(t) : t[j] \in {",", "\r", "\n"} } \cup {Len(t) + 1}) - 1

\* the value of the field t[a..e]: without its quotes, doubled quotes undone
FieldValue(t, a, e) ==
    IF a <= Len(t) /\ t[a] = "\""
    THEN Replace(SubSeq(t, a + 1, e - 1), <<"\"", "\"">>, <<"\"">>)
    ELSE SubSeq(t, a, e)

\* the row that starts at position a, after the fields in row: its cells and
\* the position after its line end
RECURSIVE ReadFields(_, _, _)
ReadFields(t, a, row) ==
    LET e == FieldEnd(t, a)
        cells == Append(row, FieldValue(t, a, e))
    IN  IF e >= Len(t) THEN [cells |-> cells, next |-> Len(t) + 1]
        ELSE IF t[e + 1] = "," THEN ReadFields(t, e + 2, cells)
        ELSE IF t[e + 1] = "\r" /\ e + 1 < Len(t) /\ t[e + 2] = "\n"
        THEN [cells |-> cells, next |-> e + 3]
        ELSE [cells |-> cells, next |-> e + 2]

RECURSIVE ReadRows(_, _, _)
ReadRows(t, a, rows) ==
    IF a > Len(t) THEN rows
    ELSE LET r == ReadFields(t, a, <<>>)
         IN  ReadRows(t, r.next, Append(rows, r.cells))

ReadCsv(t) == ReadRows(t, 1, <<>>)

ColumnOrder ==
    <<"first_name", "last_name", "current_role", "current_company", "batch",
      "linkedin_url", "profile_url">>

\* the value of field f of record r, the empty string when r has no such field
\* or holds None there
FieldOrEmpty(r, f) == IF f \in DOMAIN r /\ r[f] # None THEN r[f] ELSE <<>>

\* the rows the file must hold for the records data: the header, then one row
\* per record in record order, the columns in the fixed order
ExpectedRows(data) ==
    <<[j \in DOMAIN ColumnOrder |-> ColumnText[ColumnOrder[j]]]>>
    \o [i \in DOMAIN data |-> [j \in DOMAIN ColumnOrder |-> FieldOrEmpty(data[i], ColumnOrder[j])]]

\* C11: a call of save_to_csv returns; given zero records it leaves the file
\* system as it was (no file is written); given N >= 1 records, some lacking
\* fields, the file written reads back as exactly one header row followed by
\* exactly N data rows in record order, the columns in the fixed order
\* first_name, last_name, current_role, current_company, batch, linkedin_url,
\* profile_url, each missing field being the empty string.
C11_SaveToCsv ==
    [][(csvPc # "returned" /\ csvPc' = "returned") =>
          IF csvData' = <<>>
          THEN csvFile' = csvFile
          ELSE /\ csvFile' # None
               /\ Len(ReadCsv(csvFile')) = Len(csvData') + 1
               /\ ReadCsv(csvFile') = ExpectedRows(csvData')]_vars

\* two records were saved: the first lacks fields, holds None and a value the
\* writer must quote; the second has all fields
C11_Witness ==
    /\ csvPc = "returned"
    /\ Len(csvData) = 2
    /\ DOMAIN csvData[1] = {"first_name", "current_company", "batch"}
    /\ NeedsQuote(csvData[1].current_company)
    /\ csvData[1].first_name = None
    /\ Cardinality(DOMAIN csvData[2]) = 7
    /\ csvFile # OldFile /\ csvFile # None

====
